---- MODULE Spec2Model ----
(***************************************************************************)
(* CSV category catalogue -> Kotlin data-provider pipeline.                *)
(*                                                                         *)
(* Text is modelled as a sequence of atoms.  An atom is either one of the  *)
(* structural characters the code looks at (space, newline, ")", "}"),     *)
(* the entry marker "CategoryLaunchDataProviderModel(", or an opaque run   *)
(* of other characters.  A CSV cell, a header name, a path and a rendered  *)
(* document are all texts; str.strip(), str.upper(), int(), the regular    *)
(* expressions of the chunker and sorted() are computed on that form.      *)
(* Python indices are kept 0-based: Cell(row, idx) is row[idx].            *)
(***************************************************************************)
EXTENDS Integers, Sequences, FiniteSets, TLC

(* ------------------------------------------------------------------ *)
(* Bounds                                                             *)
(* ------------------------------------------------------------------ *)
\* most data rows in a drawn table
MaxRows == 2
\* largest max_per_chunk a preview is asked for
MaxChunk == 2

(* ------------------------------------------------------------------ *)
(* Text                                                               *)
(* ------------------------------------------------------------------ *)
SP == " "
NL == "\n"
Whitespace == {SP, NL}
MARKER == "CategoryLaunchDataProviderModel("

\* a one-atom text
W(s) == <<s>>

\* the offsets (1-based) of the atoms of t that are not whitespace
Inked(t) == {i \in 1..Len(t) : t[i] \notin Whitespace}

\* str.lstrip()
LStrip(t) ==
    IF Inked(t) = {} THEN <<>>
    ELSE SubSeq(t, CHOOSE i \in Inked(t) : \A j \in Inked(t) : i <= j, Len(t))

\* str.rstrip()
RStrip(t) ==
    IF Inked(t) = {} THEN <<>>
    ELSE SubSeq(t, 1, CHOOSE i \in Inked(t) : \A j \in Inked(t) : j <= i)

\* str.strip()
Strip(t) == RStrip(LStrip(t))

\* str.upper() of one atom, for the atoms that hold a lower-case letter
UpperAtom(a) ==
    CASE a = "true" -> "TRUE"
      [] a = "True" -> "TRUE"
      [] a = "Red" -> "RED"
      [] a = "abc" -> "ABC"
      [] a = "x" -> "X"
      [] a = "y" -> "Y"
      [] a = "Root" -> "ROOT"
      [] a = "Heavy" -> "HEAVY"
      [] a = "Light bulky" -> "LIGHT BULKY"
      [] a = "Oversize" -> "OVERSIZE"
      [] a = MARKER -> "CATEGORYLAUNCHDATAPROVIDERMODEL("
      [] OTHER -> a

\* str.upper()
Upper(t) == [i \in 1..Len(t) |-> UpperAtom(t[i])]

TRUE_TEXT == <<"TRUE">>

\* the decimal literals that occur in cells, with their values
IntLiterals == {"0", "3", "7", "-5", "100", "200"}
IntValue(a) ==
    CASE a = "0" -> 0
      [] a = "3" -> 3
      [] a = "7" -> 7
      [] a = "-5" -> -5
      [] a = "100" -> 100
      [] a = "200" -> 200

\* int(s) raises ValueError unless s, less surrounding whitespace, is one literal
IntParses(t) == Len(Strip(t)) = 1 /\ Strip(t)[1] \in IntLiterals
IntOf(t) == IntValue(Strip(t)[1])

\* x in list
In(x, s) == \E i \in 1..Len(s) : s[i] = x

\* list.index(x), 0-based, of an element the list holds
IndexOf(s, x) == (CHOOSE i \in 1..Len(s) : s[i] = x /\ \A j \in 1..(i - 1) : s[j] # x) - 1

\* row[idx], 0-based
Cell(row, idx) == row[idx + 1]

RECURSIVE Concat(_)
Concat(ts) == IF ts = <<>> THEN <<>> ELSE Head(ts) \o Concat(Tail(ts))

\* sep.join(ts)
RECURSIVE Join(_, _)
Join(sep, ts) ==
    IF ts = <<>> THEN <<>>
    ELSE IF Len(ts) = 1 THEN ts[1]
    ELSE ts[1] \o sep \o Join(sep, Tail(ts))

\* [s[i] for i in range(len(s)) if ok[i]]; the third argument is the first offset
SelectIdx(s, ok, first) ==
    LET kept == {i \in first..Len(s) : ok[i]}
    IN  [j \in 1..Cardinality(kept) |->
            s[CHOOSE i \in kept : Cardinality({q \in kept : q < i}) = j - 1]]

(* ------------------------------------------------------------------ *)
(* Configuration                                                      *)
(* ------------------------------------------------------------------ *)
NoIndex == -1

ConditionLabels ==
    << W("New with tags"), W("New without tags"), W("Very good"),
       W("Good"), W("Satisfactory"), W("Not fully functional") >>

\* app.py create_temp_config: the configuration of every upload
create_temp_config ==
    [ columns |->
        [ leaf |-> W("Leaf"), category_id |-> W("ID"), level |-> W("Level"),
          path |-> W("Path"), brand |-> W("Brand"), colour |-> W("Colour"),
          material |-> W("Material"), pattern |-> W("Pattern"), size |-> W("Size"),
          size_group |-> W("Size group"), author |-> W("Author"),
          title |-> W("Title"), isbn |-> W("ISBN"),
          language_book |-> W("Language Book"),
          video_game_rating |-> W("Video Game Rating"),
          video_game_platform |-> W("Video Game Platform"),
          internal_memory_capacity |-> W("Internal memory capacity"),
          sim_lock |-> W("Sim Lock"),
          package_size |-> W("All shippable") ],
      conditions |-> ConditionLabels,
      output_kotlin_file |-> "temp_output.kt",
      condition_mapping |->
        (W("New with tags") :> "VintedConditionTypes.NEW_WITH_TAGS.id") @@
        (W("New without tags") :> "VintedConditionTypes.NEW_WITHOUT_TAGS.id") @@
        (W("Very good") :> "VintedConditionTypes.VERY_GOOD.id") @@
        (W("Good") :> "VintedConditionTypes.GOOD.id") @@
        (W("Satisfactory") :> "VintedConditionTypes.SATISFACTORY.id") @@
        (W("Not fully functional") :> "VintedConditionTypes.NOT_FULLY_FUNCTIONAL.id"),
      package_size_mapping |->
        (W("All shippable") :> << "VintedPackageTypes.SMALL.id",
                                  "VintedPackageTypes.MEDIUM.id",
                                  "VintedPackageTypes.LARGE.id" >>) @@
        (W("Light bulky") :> << "VintedPackageTypes.BULKY_SMALL.id",
                                "VintedPackageTypes.BULKY_MEDIUM.id",
                                "VintedPackageTypes.BULKY_LARGE.id",
                                "VintedPackageTypes.BULKY_X_LARGE.id" >>) @@
        (W("Heavy") :> << "VintedPackageTypes.HEAVY_SMALL.id",
                          "VintedPackageTypes.HEAVY_MEDIUM.id",
                          "VintedPackageTypes.HEAVY_LARGE.id" >>) @@
        (W("Heavy bulky") :> << "VintedPackageTypes.HEAVY_BULKY_SMALL.id",
                                "VintedPackageTypes.HEAVY_BULKY_MEDIUM.id",
                                "VintedPackageTypes.HEAVY_BULKY_LARGE.id" >>) ]

\* a config.yaml with every attribute column, a free-text package size column,
\* three condition labels of which two are mapped, and a package size mapping of
\* two buckets
YamlFull ==
    [ columns |->
        [ leaf |-> W("Leaf"), category_id |-> W("ID"), level |-> W("Level"),
          path |-> W("Path"), brand |-> W("Brand"), colour |-> W("Colour"),
          material |-> W("Material"), size_group |-> W("Size group"),
          author |-> W("Author"), title |-> W("Title"), isbn |-> W("ISBN"),
          package_size |-> W("Package size") ],
      conditions |-> << W("Very good"), W("Good"), W("New with tags") >>,
      output_kotlin_file |-> "output.kt",
      condition_mapping |->
        (W("Very good") :> "VintedConditionTypes.VERY_GOOD.id") @@
        (W("Good") :> "VintedConditionTypes.GOOD.id"),
      package_size_mapping |->
        (W("All shippable") :> << "VintedPackageTypes.SMALL.id" >>) @@
        (W("Heavy") :> << "VintedPackageTypes.HEAVY_SMALL.id" >>) ]

\* a config.yaml of the basic field set: no material, size_group, author, title,
\* isbn or package_size column
YamlBasic ==
    [ columns |->
        [ leaf |-> W("Leaf"), category_id |-> W("ID"), level |-> W("Level"),
          path |-> W("Path"), brand |-> W("Brand"), colour |-> W("Colour") ],
      conditions |-> << W("Good") >>,
      output_kotlin_file |-> "output.kt",
      condition_mapping |-> (W("Good") :> "VintedConditionTypes.GOOD.id"),
      package_size_mapping |->
        (W("All shippable") :> << "VintedPackageTypes.SMALL.id" >>) ]

\* what ConfigLoader.load_config can be given: a loadable file, or one that is
\* absent, malformed or lacks a key
YamlFiles == {"full", "basic", "unloadable"}

load_config_ok(yaml) == yaml # "unloadable"
load_config(yaml) == IF yaml = "full" THEN YamlFull ELSE YamlBasic

\* the state before a configuration is loaded
NoConfig ==
    [ columns |-> <<>>, conditions |-> <<>>, output_kotlin_file |-> "",
      condition_mapping |-> <<>>, package_size_mapping |-> <<>> ]

HasKey(d, k) == k \in DOMAIN d

\* dict.get(k) of a dict of offsets
GetIndex(d, k) == IF k \in DOMAIN d THEN d[k] ELSE NoIndex

(* ------------------------------------------------------------------ *)
(* csv_processor.py                                                   *)
(* ------------------------------------------------------------------ *)
expected_columns == << W("ID"), W("Code"), W("Name"), W("Path"), W("Level"), W("Leaf") >>

RECURSIVE find_header_from(_, _)
find_header_from(csv, i) ==
    IF i >= Len(csv) THEN 0
    ELSE IF \A k \in 1..Len(expected_columns) : In(expected_columns[k], Cell(csv, i))
         THEN i
         ELSE find_header_from(csv, i + 1)

\* variant: no scan, the first row is taken as the header row
find_header_row_unscanned(csv) == 0

find_header_row(csv) == find_header_from(csv, 0)

new_columns == << "material", "size_group", "author", "title", "isbn" >>

required_columns(cfg) ==
    << cfg.columns["leaf"], cfg.columns["category_id"], cfg.columns["path"],
       cfg.columns["brand"], cfg.columns["colour"], cfg.columns["level"] >>
    \o Concat([i \in 1..Len(new_columns) |->
                  IF HasKey(cfg.columns, new_columns[i])
                  THEN << cfg.columns[new_columns[i]] >> ELSE <<>>])
    \o (IF HasKey(cfg.columns, "package_size") THEN << cfg.columns["package_size"] >> ELSE <<>>)

\* variant: only the first missing column is reported
missing_columns_first_only(cfg, headers) ==
    LET req == required_columns(cfg)
        missing == SelectIdx(req, [i \in 1..Len(req) |-> ~In(req[i], headers)], 1)
    IN  IF missing = <<>> THEN <<>> ELSE << missing[1] >>

missing_columns(cfg, headers) ==
    LET req == required_columns(cfg)
    IN  SelectIdx(req, [i \in 1..Len(req) |-> ~In(req[i], headers)], 1)

\* variant: Light bulky looked at before Heavy shipping
package_size_columns_reordered ==
    << [col_name |-> W("All shippable"), package_type |-> W("All shippable")],
       [col_name |-> W("Light bulky"), package_type |-> W("Light bulky")],
       [col_name |-> W("Heavy shipping"), package_type |-> W("Heavy")],
       [col_name |-> W("Heavy bulky"), package_type |-> W("Heavy bulky")] >>

package_size_columns ==
    << [col_name |-> W("All shippable"), package_type |-> W("All shippable")],
       [col_name |-> W("Heavy shipping"), package_type |-> W("Heavy")],
       [col_name |-> W("Light bulky"), package_type |-> W("Light bulky")],
       [col_name |-> W("Heavy bulky"), package_type |-> W("Heavy bulky")] >>

\* _column_indices once _validate_csv_structure has passed
stored_indices(cfg, headers) ==
    LET req == required_columns(cfg)
        names == {req[i] : i \in 1..Len(req)}
                 \cup {cfg.conditions[i] : i \in 1..Len(cfg.conditions)}
                 \cup {package_size_columns[i].col_name : i \in 1..4}
    IN  [c \in {n \in names : In(n, headers)} |-> IndexOf(headers, c)]

safe_extract(row, idx) ==
    IF idx # NoIndex /\ idx < Len(row) THEN Strip(Cell(row, idx)) ELSE <<>>

\* a CategoryAttributes field: True, None, or the text itself
AttrTrue == [kind |-> "true", text |-> <<>>]
AttrNone == [kind |-> "none", text |-> <<>>]
AttrText(t) == [kind |-> "text", text |-> t]

\* variant: TRUE recognised in any case
attribute_value_any_case(value) ==
    IF Upper(value) = TRUE_TEXT THEN AttrTrue
    ELSE IF value = <<>> THEN AttrNone
    ELSE AttrText(value)

attribute_value(value) ==
    IF value = TRUE_TEXT THEN AttrTrue
    ELSE IF value = <<>> THEN AttrNone
    ELSE AttrText(value)

AttributeFields == << "brand", "colour", "material", "size_group", "author", "title", "isbn" >>
AttributeSet == {AttributeFields[i] : i \in 1..Len(AttributeFields)}

\* self.config.columns[...] raises KeyError for a field the configuration lacks
extract_attributes_raises(cfg) == ~(AttributeSet \subseteq DOMAIN cfg.columns)

extract_attributes(cfg, ci, row) ==
    [f \in AttributeSet |->
        attribute_value(safe_extract(row, GetIndex(ci, cfg.columns[f])))]

extract_path(cfg, ci, row) ==
    LET path_idx == GetIndex(ci, cfg.columns["path"])
    IN  IF path_idx = NoIndex \/ path_idx >= Len(row) THEN <<>>
        ELSE Strip(Cell(row, path_idx))

RECURSIVE first_true_package(_, _, _)
first_true_package(ci, row, i) ==
    IF i > Len(package_size_columns) THEN <<>>
    ELSE LET col_idx == GetIndex(ci, package_size_columns[i].col_name)
         IN  IF col_idx # NoIndex /\ col_idx < Len(row)
                /\ Upper(Strip(Cell(row, col_idx))) = TRUE_TEXT
             THEN package_size_columns[i].package_type
             ELSE first_true_package(ci, row, i + 1)

package_size_fallback(cfg, ci, row) ==
    IF HasKey(cfg.columns, "package_size") /\ cfg.columns["package_size"] # <<>>
    THEN LET package_size_idx == GetIndex(ci, cfg.columns["package_size"])
         IN  IF package_size_idx # NoIndex /\ package_size_idx < Len(row)
             THEN LET package_size_value == Strip(Cell(row, package_size_idx))
                  IN  IF package_size_value # <<>> /\ package_size_value # W("-")
                      THEN package_size_value
                      ELSE W("All shippable")
             ELSE W("All shippable")
    ELSE W("All shippable")

extract_package_size(cfg, ci, row) ==
    LET hit == first_true_package(ci, row, 1)
    IN  IF hit # <<>> THEN hit ELSE package_size_fallback(cfg, ci, row)

\* the keys of a dict filled in list order: first occurrences
DictKeys(s) == SelectIdx(s, [i \in 1..Len(s) |-> \A j \in 1..(i - 1) : s[j] # s[i]], 1)

extract_status_counts(cfg, ci, row) ==
    LET keys == DictKeys(cfg.conditions)
    IN  [i \in 1..Len(keys) |->
            LET condition_idx == GetIndex(ci, keys[i])
            IN  [ status |-> keys[i],
                  count |-> IF condition_idx # NoIndex /\ condition_idx < Len(row)
                               /\ Upper(Strip(Cell(row, condition_idx))) = TRUE_TEXT
                            THEN 1 ELSE 0 ]]

field_mappings ==
    << [field_name |-> "brand", is_upload_form |-> TRUE, is_filter |-> TRUE],
       [field_name |-> "colour", is_upload_form |-> TRUE, is_filter |-> TRUE],
       [field_name |-> "material", is_upload_form |-> TRUE, is_filter |-> TRUE],
       [field_name |-> "size_group", is_upload_form |-> TRUE, is_filter |-> TRUE],
       [field_name |-> "author", is_upload_form |-> TRUE, is_filter |-> FALSE],
       [field_name |-> "title", is_upload_form |-> TRUE, is_filter |-> FALSE],
       [field_name |-> "isbn", is_upload_form |-> TRUE, is_filter |-> FALSE] >>

field_enabled(cfg, ci, row, field_name) ==
    /\ HasKey(cfg.columns, field_name)
    /\ cfg.columns[field_name] # <<>>
    /\ LET col_idx == GetIndex(ci, cfg.columns[field_name])
       IN  /\ col_idx # NoIndex
           /\ col_idx < Len(row)
           /\ Upper(Strip(Cell(row, col_idx))) = TRUE_TEXT

extract_field_types(cfg, ci, row) ==
    SelectIdx(field_mappings,
              [i \in 1..Len(field_mappings) |->
                  field_enabled(cfg, ci, row, field_mappings[i].field_name)], 1)

\* variant: no fallback to the "All shippable" list for an unknown bucket
shipping_sizes_no_fallback(cfg, package_size) ==
    IF HasKey(cfg.package_size_mapping, package_size)
    THEN cfg.package_size_mapping[package_size]
    ELSE <<>>

shipping_sizes(cfg, package_size) ==
    IF HasKey(cfg.package_size_mapping, package_size)
    THEN cfg.package_size_mapping[package_size]
    ELSE cfg.package_size_mapping[W("All shippable")]

\* what _process_row does with a row: a record, None, or an exception
RowNone == [kind |-> "none"]
RowRaises == [kind |-> "raises"]

process_row(cfg, ci, row) ==
    LET leaf_idx == ci[cfg.columns["leaf"]]
        category_id_idx == ci[cfg.columns["category_id"]]
        level_idx == ci[cfg.columns["level"]]
    IN  IF leaf_idx >= Len(row) THEN RowNone
        ELSE IF category_id_idx >= Len(row) THEN RowNone
        ELSE IF ~IntParses(Cell(row, category_id_idx)) THEN RowNone
        ELSE IF level_idx >= Len(row) THEN RowNone
        ELSE IF ~IntParses(Cell(row, level_idx)) THEN RowNone
        ELSE IF extract_attributes_raises(cfg) THEN RowRaises
        ELSE IF ~HasKey(cfg.package_size_mapping, W("All shippable")) THEN RowRaises
        ELSE [ kind |-> "record",
               category_id |-> IntOf(Cell(row, category_id_idx)),
               is_leaf_category |-> (Upper(Strip(Cell(row, leaf_idx))) = TRUE_TEXT),
               path |-> extract_path(cfg, ci, row),
               attributes |-> extract_attributes(cfg, ci, row),
               field_types |-> extract_field_types(cfg, ci, row),
               package_size |-> extract_package_size(cfg, ci, row),
               shipping_sizes |-> shipping_sizes(cfg, extract_package_size(cfg, ci, row)),
               statuses_count |-> extract_status_counts(cfg, ci, row),
               category_level |-> IntOf(Cell(row, level_idx)) ]

(* ------------------------------------------------------------------ *)
(* kotlin_generator.py                                                *)
(* ------------------------------------------------------------------ *)
upload_form_identifier(field_name) ==
    CASE field_name = "brand" -> << "VintedUploadItemFieldTypes.BRAND_VISIBLE" >>
      [] field_name = "colour" -> << "VintedUploadItemFieldTypes.COLOR_VISIBLE" >>
      [] field_name = "material" -> << "VintedUploadItemFieldTypes.MATERIAL_VISIBLE" >>
      [] field_name = "pattern" -> << "VintedUploadItemFieldTypes.PATTERN_VISIBLE" >>
      [] field_name = "size" -> << "VintedUploadItemFieldTypes.SIZE_VISIBLE" >>
      [] field_name = "size_group" -> << "VintedUploadItemFieldTypes.SIZE_VISIBLE" >>
      [] field_name = "author" -> << "VintedUploadItemFieldTypes.AUTHOR_VISIBLE" >>
      [] field_name = "isbn" -> << "VintedUploadItemFieldTypes.ISBN_VISIBLE" >>
      [] field_name = "video_game_rating" ->
           << "VintedUploadItemFieldTypes.VIDEO_GAME_RATING_VISIBLE" >>
      [] field_name = "video_game_platform" ->
           << "VintedUploadItemFieldTypes.VIDEO_GAME_PLATFORM_VISIBLE" >>
      [] field_name = "internal_memory_capacity" ->
           << "VintedUploadItemFieldTypes.STORAGE_VISIBLE" >>
      [] field_name = "sim_lock" -> << "VintedUploadItemFieldTypes.SIM_LOCK_VISIBLE" >>
      [] OTHER -> <<>>

generate_field_types(field_types) ==
    Concat([i \in 1..Len(field_types) |->
               IF field_types[i].is_upload_form
               THEN upload_form_identifier(field_types[i].field_name)
               ELSE <<>>])
    \o << "VintedUploadItemFieldTypes.CONDITION_VISIBLE" >>

\* variant: a size_group flag gives the SIZE filter, as a size flag does
filter_identifier_size_group(field_name) ==
    CASE field_name = "brand" -> << "VintedFilterType.BRAND" >>
      [] field_name = "colour" -> << "VintedFilterType.COLOR" >>
      [] field_name = "material" -> << "VintedFilterType.MATERIAL" >>
      [] field_name = "pattern" -> << "VintedFilterType.PATTERNS" >>
      [] field_name \in {"size", "size_group"} -> << "VintedFilterType.SIZE" >>
      [] field_name = "language_book" -> << "VintedFilterType.LANGUAGE" >>
      [] field_name = "video_game_rating" -> << "VintedFilterType.VIDEO_GAME_RATING" >>
      [] field_name = "video_game_platform" -> << "VintedFilterType.VIDEO_GAME_PLATFORM" >>
      [] field_name = "internal_memory_capacity" ->
           << "VintedFilterType.INTERNAL_MEMORY_CAPACITY" >>
      [] field_name = "sim_lock" -> << "VintedFilterType.SIM_LOCK" >>
      [] OTHER -> <<>>

filter_identifier(field_name) ==
    CASE field_name = "brand" -> << "VintedFilterType.BRAND" >>
      [] field_name = "colour" -> << "VintedFilterType.COLOR" >>
      [] field_name = "material" -> << "VintedFilterType.MATERIAL" >>
      [] field_name = "pattern" -> << "VintedFilterType.PATTERNS" >>
      [] field_name = "size" -> << "VintedFilterType.SIZE" >>
      [] field_name = "language_book" -> << "VintedFilterType.LANGUAGE" >>
      [] field_name = "video_game_rating" -> << "VintedFilterType.VIDEO_GAME_RATING" >>
      [] field_name = "video_game_platform" -> << "VintedFilterType.VIDEO_GAME_PLATFORM" >>
      [] field_name = "internal_memory_capacity" ->
           << "VintedFilterType.INTERNAL_MEMORY_CAPACITY" >>
      [] field_name = "sim_lock" -> << "VintedFilterType.SIM_LOCK" >>
      [] OTHER -> <<>>

generate_filter_types(field_types) ==
    Concat([i \in 1..Len(field_types) |->
               IF field_types[i].is_filter
               THEN filter_identifier(field_types[i].field_name)
               ELSE <<>>])
    \o << "VintedFilterType.STATUS", "VintedFilterType.PRICE" >>

\* The code points of a condition identifier after the prefix
\* "VintedConditionTypes.", which every identifier of the mappings shares: Python
\* orders str by code point, so the order of two identifiers is that of these.
CodePoints(s) ==
    CASE s = "VintedConditionTypes.NEW_WITH_TAGS.id" ->
           << 78, 69, 87, 95, 87, 73, 84, 72, 95, 84, 65, 71, 83, 46, 105, 100 >>
      [] s = "VintedConditionTypes.NEW_WITHOUT_TAGS.id" ->
           << 78, 69, 87, 95, 87, 73, 84, 72, 79, 85, 84, 95, 84, 65, 71, 83, 46, 105, 100 >>
      [] s = "VintedConditionTypes.VERY_GOOD.id" ->
           << 86, 69, 82, 89, 95, 71, 79, 79, 68, 46, 105, 100 >>
      [] s = "VintedConditionTypes.GOOD.id" ->
           << 71, 79, 79, 68, 46, 105, 100 >>
      [] s = "VintedConditionTypes.SATISFACTORY.id" ->
           << 83, 65, 84, 73, 83, 70, 65, 67, 84, 79, 82, 89, 46, 105, 100 >>
      [] s = "VintedConditionTypes.NOT_FULLY_FUNCTIONAL.id" ->
           << 78, 79, 84, 95, 70, 85, 76, 76, 89, 95, 70, 85, 78, 67, 84, 73, 79, 78, 65,
              76, 46, 105, 100 >>

\* a < b for two sequences of code points
RECURSIVE LexLess(_, _)
LexLess(a, b) ==
    IF b = <<>> THEN FALSE
    ELSE IF a = <<>> THEN TRUE
    ELSE IF Head(a) # Head(b) THEN Head(a) < Head(b)
    ELSE LexLess(Tail(a), Tail(b))

\* str < str
StrLess(s, t) == LexLess(CodePoints(s), CodePoints(t))

\* x put into the sorted list s after every element not greater than it
RECURSIVE InsertSorted(_, _)
InsertSorted(x, s) ==
    IF s = <<>> THEN << x >>
    ELSE IF StrLess(x, Head(s)) THEN << x >> \o s
    ELSE << Head(s) >> \o InsertSorted(x, Tail(s))

\* sorted(s): ascending and stable
RECURSIVE sorted(_)
sorted(s) ==
    IF s = <<>> THEN <<>>
    ELSE InsertSorted(s[Len(s)], sorted(SubSeq(s, 1, Len(s) - 1)))

default_condition_ids ==
    << "VintedConditionTypes.NEW_WITH_TAGS.id",
       "VintedConditionTypes.NEW_WITHOUT_TAGS.id",
       "VintedConditionTypes.VERY_GOOD.id",
       "VintedConditionTypes.GOOD.id",
       "VintedConditionTypes.SATISFACTORY.id" >>

mapped_condition_ids(cfg, statuses_count) ==
    Concat([i \in 1..Len(statuses_count) |->
               IF statuses_count[i].count > 0
                  /\ HasKey(cfg.condition_mapping, statuses_count[i].status)
               THEN << cfg.condition_mapping[statuses_count[i].status] >>
               ELSE <<>>])

\* variant: the identifiers in the order collected, the final sort left out
generate_condition_ids_unsorted(cfg, statuses_count) ==
    LET condition_ids == mapped_condition_ids(cfg, statuses_count)
    IN  IF condition_ids = <<>> THEN default_condition_ids ELSE condition_ids

generate_condition_ids(cfg, statuses_count) ==
    LET condition_ids == mapped_condition_ids(cfg, statuses_count)
    IN  sorted(IF condition_ids = <<>> THEN default_condition_ids ELSE condition_ids)

Indent4 == << SP, SP, SP, SP >>
Indent8 == Indent4 \o Indent4

\* ", ".join(ids)
CommaList(ids) == Join(<< ", " >>, [i \in 1..Len(ids) |-> << ids[i] >>])

header_lines ==
    << << "package categoryLaunches.dataProviders" >>,
       <<>>,
       << "import api.data.models.categoryLaunch.VintedConditionTypes" >>,
       << "import api.data.models.categoryLaunch.VintedPackageTypes" >>,
       << "import api.data.models.categoryLaunch.VintedUploadItemFieldTypes" >>,
       << "import commonUtil.data.enums.VintedFilterType" >>,
       << "import helper.supply.SupplyTestsHelper" >>,
       << "import org.testng.annotations.DataProvider" >>,
       <<>>,
       << "class CategoryLaunchDataProvider {" >>,
       Indent4 \o << "private val supplyTestsHelper: SupplyTestsHelper get() = SupplyTestsHelper()" >>,
       Indent4 \o << "@DataProvider(name = \"leafCategoryDataForCategoryLaunches\", parallel = true)" >>,
       Indent4 \o << "fun getDataForLeafCategoriesOnly(): Array<CategoryLaunchDataProviderModel> {" >>,
       Indent8 \o << "return getDataForEachCategory().filter { it.isLeafCategory }.toTypedArray()" >>,
       Indent4 \o << "}" >>,
       <<>>,
       Indent4 \o << "@DataProvider(name = \"dataForCategoryLaunches\", parallel = true)" >>,
       Indent4 \o << "fun getDataForEachCategory(): Array<CategoryLaunchDataProviderModel> {" >>,
       Indent8 \o << "return arrayOf(" >> >>

kotlin_header == Join(<< NL >>, header_lines)

kotlin_footer ==
    Join(<< NL >>, << Indent8 \o << ")" >>, Indent4 \o << "}" >>, << "}" >> >>)

kotlin_entry(cfg, category) ==
    LET upload_form_fields == generate_field_types(category.field_types)
        filter_fields == generate_filter_types(category.field_types)
        condition_ids == generate_condition_ids(cfg, category.statuses_count)
        id == ToString(category.category_id)
    IN  Join(<< NL >>,
          << << MARKER >>,
             Indent4 \o << "categoryId = ", id, "L," >>,
             Indent4 \o << "isLeafCategory = ",
                           IF category.is_leaf_category THEN "true" ELSE "false", "," >>,
             Indent4 \o << "categoryLevel = ", ToString(category.category_level), "L," >>,
             Indent4 \o << "categoryPath = \"" >> \o category.path \o << "\"," >>,
             Indent4 \o << "expectedFieldsVisibility = ", "listOf(" >>
                     \o CommaList(upload_form_fields) \o << ")," >>,
             Indent4 \o << "expectedFiltersVisibility = " >>
                     \o (IF filter_fields # <<>>
                         THEN << "listOf(" >> \o CommaList(filter_fields) \o << ")" >>
                         ELSE << "emptyList()" >>)
                     \o << "," >>,
             Indent4 \o << "expectedConditionTypeIds = ", "setOf(" >>
                     \o CommaList(condition_ids) \o << ")," >>,
             Indent4 \o << "expectedPackageSizeIds = ", "setOf(" >>
                     \o CommaList(category.shipping_sizes) \o << ")," >>,
             Indent4 \o << "expectedSizeGroupsIds = null," >>,
             Indent4 \o << "brandId = supplyTestsHelper.getDefaultBrandId(", id, "L)" >>,
             << ")", "," >> >>)

\* lines: the header, then each entry followed by "", the last "" popped, the footer
generate_kotlin_models(cfg, categories) ==
    LET body == Concat([i \in 1..Len(categories) |->
                           << kotlin_entry(cfg, categories[i]), <<>> >>])
        lines == << kotlin_header >> \o body
        popped == IF lines[Len(lines)] = <<>> THEN SubSeq(lines, 1, Len(lines) - 1)
                  ELSE lines
    IN  Join(<< NL >>, popped \o << kotlin_footer >>)

(* ------------------------------------------------------------------ *)
(* app.py: _split_kotlin_into_chunks                                  *)
(* ------------------------------------------------------------------ *)
Min(a, b) == IF a < b THEN a ELSE b

\* t[a:b] for 0 <= a and 0 <= b
Slice(t, a, b) ==
    IF a >= Min(b, Len(t)) THEN <<>> ELSE SubSeq(t, a + 1, Min(b, Len(t)))

\* [m.start() for m in re.finditer(pattern, content)]
marker_positions(content) ==
    SelectIdx([i \in 1..Len(content) |-> i - 1],
              [i \in 1..Len(content) |-> content[i] = MARKER], 1)

\* the offset where the run of whitespace that starts at offset p ends
RECURSIVE WsEnd(_, _)
WsEnd(t, p) ==
    IF p < Len(t) /\ Cell(t, p) \in Whitespace THEN WsEnd(t, p + 1) ELSE p

\* the offsets \s* can reach from offset p
WsReach(t, p) == p..WsEnd(t, p)

At(t, p, a) == p < Len(t) /\ Cell(t, p) = a

\* ^ and $ under re.MULTILINE
LineStart(t, p) == p = 0 \/ Cell(t, p - 1) = NL
LineEnd(t, p) == p = Len(t) \/ Cell(t, p) = NL

\* ^\s+\)\s*\n\s+\}\s*\n\s*\}\s*$ matches at offset s
footer_matches_at(t, s) ==
    /\ LineStart(t, s)
    /\ \E a \in WsReach(t, s) :
        /\ a > s
        /\ At(t, a, ")")
        /\ \E b \in WsReach(t, a + 1) :
            /\ At(t, b, NL)
            /\ \E c \in WsReach(t, b + 1) :
                /\ c > b + 1
                /\ At(t, c, "}")
                /\ \E d \in WsReach(t, c + 1) :
                    /\ At(t, d, NL)
                    /\ \E e \in WsReach(t, d + 1) :
                        /\ At(t, e, "}")
                        /\ \E f \in WsReach(t, e + 1) : LineEnd(t, f)

\* re.search: the leftmost offset with a match, NoIndex when there is none
footer_match(t) ==
    LET starts == {s \in 0..Len(t) : footer_matches_at(t, s)}
    IN  IF starts = {} THEN NoIndex
        ELSE CHOOSE s \in starts : \A u \in starts : s <= u

chunk_entries(content) ==
    LET positions == marker_positions(content)
        start == footer_match(content)
        content_without_footer ==
            IF start # NoIndex THEN RStrip(Slice(content, 0, start)) ELSE content
        kept == SelectIdx(positions,
                          [i \in 1..Len(positions) |->
                              positions[i] < Len(content_without_footer)], 1)
        positions_in_content == IF kept = <<>> THEN positions ELSE kept
    IN  [i \in 1..Len(positions_in_content) |->
            Strip(Slice(content_without_footer, positions_in_content[i],
                        IF i + 1 <= Len(positions_in_content)
                        THEN positions_in_content[i + 1]
                        ELSE Len(content_without_footer)))]

chunk_header_text(content) ==
    LET header == Slice(content, 0, marker_positions(content)[1])
    IN  IF Strip(header) # <<>> THEN Strip(header) \o << NL, NL >> ELSE <<>>

chunk_footer_text(content) ==
    LET start == footer_match(content)
        footer == IF start # NoIndex THEN Strip(Slice(content, start, Len(content)))
                  ELSE <<>>
    IN  IF footer # <<>> THEN << NL >> \o footer ELSE <<>>

\* range(0, n, step) for step > 0
RangeStarts(n, step) == [j \in 1..((n + step - 1) \div step) |-> (j - 1) * step]

\* variant: the ValueError of a zero step is not caught into << content >>
split_kotlin_into_chunks_uncaught(content, max_per_chunk) ==
    IF marker_positions(content) = <<>>
    THEN (IF Strip(content) # <<>> THEN << content >> ELSE <<>>)
    ELSE IF max_per_chunk <= 0
    THEN <<>>
    ELSE LET entries == chunk_entries(content)
             starts == RangeStarts(Len(entries), max_per_chunk)
         IN  [j \in 1..Len(starts) |->
                 Strip(chunk_header_text(content)
                       \o Join(<< NL, NL >>,
                               Slice(entries, starts[j], starts[j] + max_per_chunk))
                       \o chunk_footer_text(content))]

split_kotlin_into_chunks(content, max_per_chunk) ==
    IF marker_positions(content) = <<>>
    THEN (IF Strip(content) # <<>> THEN << content >> ELSE <<>>)
    ELSE IF max_per_chunk = 0
    THEN << content >>                       \* range() raises ValueError: except branch
    ELSE IF max_per_chunk < 0
    THEN <<>>                                \* range() is empty
    ELSE LET entries == chunk_entries(content)
             header_text == chunk_header_text(content)
             footer_text == chunk_footer_text(content)
             starts == RangeStarts(Len(entries), max_per_chunk)
         IN  [j \in 1..Len(starts) |->
                 Strip(header_text
                       \o Join(<< NL, NL >>,
                               Slice(entries, starts[j], starts[j] + max_per_chunk))
                       \o footer_text)]

(* ------------------------------------------------------------------ *)
(* State                                                              *)
(* ------------------------------------------------------------------ *)
VARIABLES
    mode,               \* "main" (main.py) or "upload" (app.py /upload)
    yaml,               \* the config.yaml main is given
    csv_data,           \* the parsed table: a list of rows, a row a list of cells
    pc,                 \* where the run is
    config,             \* the Config in use
    column_indices,     \* CSVProcessor._column_indices
    header_row_index,
    row_index,          \* the row the extraction loop is at
    categories,         \* the records extracted so far
    error,              \* the exception that ended the run
    files,              \* the output documents on disk, by path
    preview,            \* the last split: its arguments and the chunks returned
    requests,           \* the /upload requests in flight, each with its position
    upload_folder       \* the files of UPLOAD_FOLDER that uploads are saved to, by name

vars == << mode, yaml, csv_data, pc, config, column_indices, header_row_index,
           row_index, categories, error, files, preview, requests, upload_folder >>

GENERATED_MODELS == "temp_uploads/generated_models.kt"
Paths == {GENERATED_MODELS, "output.kt"}

NoFile == [exists |-> FALSE, content |-> <<>>]
FileOf(content) == [exists |-> TRUE, content |-> content]

NoError == [kind |-> "none", columns |-> <<>>]

\* the requests the server may be handling at once
Requests == {"r1", "r2"}

\* a request slot that no upload has come in on
NoRequest == [pc |-> "idle", filename |-> "", body |-> <<>>, read |-> <<>>]

\* the names a file can take in UPLOAD_FOLDER after secure_filename
SavedNames == {"a.csv", "b.csv", "notes.txt"}

\* no split asked for yet
NoPreview == [max_per_chunk |-> 0, content |-> <<>>, chunks |-> <<>>]

(* ------------------------------------------------------------------ *)
(* Steps                                                              *)
(* ------------------------------------------------------------------ *)
\* main: ConfigLoader.load_config(); upload_file: create_temp_config(temp_csv_path)
LoadConfig ==
    /\ pc = "start"
    /\ IF mode = "main" /\ ~load_config_ok(yaml)
       THEN /\ pc' = "failed"
            /\ error' = [kind |-> "configuration", columns |-> <<>>]
            /\ UNCHANGED config
       ELSE /\ config' = (IF mode = "upload" THEN create_temp_config ELSE load_config(yaml))
            /\ pc' = "loaded"
            /\ UNCHANGED error
    /\ UNCHANGED << requests, upload_folder >>
    /\ UNCHANGED << mode, yaml, csv_data, column_indices, header_row_index, row_index,
                    categories, files, preview >>

\* process_csv up to the loop: the length check, _find_header_row and
\* _validate_csv_structure
ValidateCsv ==
    /\ pc = "loaded"
    /\ IF Len(csv_data) < 2
       THEN /\ pc' = "failed"
            /\ error' = [kind |-> "no_data_row", columns |-> <<>>]
            /\ UNCHANGED << column_indices, header_row_index, row_index >>
       ELSE LET h == find_header_row(csv_data)
                headers == Cell(csv_data, h)
                missing == missing_columns(config, headers)
            IN  IF missing # <<>>
                THEN /\ pc' = "failed"
                     /\ error' = [kind |-> "missing_columns", columns |-> missing]
                     /\ UNCHANGED << column_indices, header_row_index, row_index >>
                ELSE /\ column_indices' = stored_indices(config, headers)
                     /\ header_row_index' = h
                     /\ row_index' = h + 1
                     /\ pc' = "rows"
                     /\ UNCHANGED error
    /\ UNCHANGED << requests, upload_folder >>
    /\ UNCHANGED << mode, yaml, csv_data, config, categories, files, preview >>

\* one pass of the loop of process_csv: a record is appended, None and an
\* exception are logged and the loop goes on
ProcessRow ==
    /\ pc = "rows"
    /\ row_index < Len(csv_data)
    /\ LET category_data == process_row(config, column_indices, Cell(csv_data, row_index))
       IN  categories' = IF category_data.kind = "record"
                         THEN Append(categories, category_data)
                         ELSE categories
    /\ row_index' = row_index + 1
    /\ UNCHANGED << requests, upload_folder >>
    /\ UNCHANGED << mode, yaml, csv_data, pc, config, column_indices, header_row_index,
                    error, files, preview >>

output_path == IF mode = "upload" THEN GENERATED_MODELS ELSE config.output_kotlin_file

\* variant: the document is written whether or not a record was extracted
WriteOutputUnchecked ==
    /\ pc = "rows"
    /\ row_index = Len(csv_data)
    /\ files' = [files EXCEPT ![output_path] =
                    FileOf(generate_kotlin_models(config, categories))]
    /\ pc' = IF categories = <<>> THEN "empty" ELSE "written"
    /\ UNCHANGED << requests, upload_folder >>
    /\ UNCHANGED << mode, yaml, csv_data, config, column_indices, header_row_index,
                    row_index, categories, error, preview >>

\* process_csv returns; the caller stops on an empty list, else renders the
\* document and writes it
WriteOutput ==
    /\ pc = "rows"
    /\ row_index = Len(csv_data)
    /\ IF categories = <<>>
       THEN /\ pc' = "empty"
            /\ UNCHANGED files
       ELSE /\ files' = [files EXCEPT ![output_path] =
                            FileOf(generate_kotlin_models(config, categories))]
            /\ pc' = "written"
    /\ UNCHANGED << requests, upload_folder >>
    /\ UNCHANGED << mode, yaml, csv_data, config, column_indices, header_row_index,
                    row_index, categories, error, preview >>

\* a preview once the run has ended: _split_kotlin_into_chunks on the document
\* preview_kotlin reads, for a max_per_chunk of the bounded range (preview_kotlin
\* itself passes 150)
SplitPreview(max_per_chunk) ==
    /\ pc \in {"written", "empty", "failed"}
    /\ preview = NoPreview
    /\ files[GENERATED_MODELS].exists
    /\ preview' = [ max_per_chunk |-> max_per_chunk,
                    content |-> files[GENERATED_MODELS].content,
                    chunks |-> split_kotlin_into_chunks(files[GENERATED_MODELS].content,
                                                        max_per_chunk) ]
    /\ UNCHANGED << requests, upload_folder >>
    /\ UNCHANGED << mode, yaml, csv_data, pc, config, column_indices, header_row_index,
                    row_index, categories, error, files >>

Next ==
    \/ LoadConfig
    \/ ValidateCsv
    \/ ProcessRow
    \/ WriteOutput
    \/ \E k \in (-1)..MaxChunk : SplitPreview(k)

(* ------------------------------------------------------------------ *)
(* Inputs                                                             *)
(* ------------------------------------------------------------------ *)
FullLayout ==
    << W("ID"), W("Code"), W("Name"), W("Path"), W("Level"), W("Leaf"),
       W("Brand"), W("Colour"), W("Material"), W("Size group"), W("Author"),
       W("Title"), W("ISBN"), W("Package size"), W("All shippable"),
       W("Heavy shipping"), W("Light bulky"), W("Heavy bulky"),
       W("New with tags"), W("New without tags"), W("Very good"), W("Good") >>

\* the leaf column first and no Code or Name column: no row holds all six markers
LeafFirstLayout ==
    << W("Leaf"), W("ID"), W("Level"), W("Path"), W("Brand"), W("Colour"),
       W("Material"), W("Size group"), W("Author"), W("Title"), W("ISBN"),
       W("Package size"), W("All shippable"), W("Good") >>

\* FullLayout less the Colour and ISBN columns
LackingLayout ==
    SelectIdx(FullLayout,
              [i \in 1..Len(FullLayout) |-> FullLayout[i] \notin {W("Colour"), W("ISBN")}], 1)

ColumnNames == {FullLayout[i] : i \in 1..Len(FullLayout)}

BaseCells ==
    [c \in ColumnNames |->
        CASE c = W("ID") -> W("100")
          [] c = W("Code") -> W("WOMEN")
          [] c = W("Name") -> W("Women")
          [] c = W("Path") -> W("Root")
          [] c = W("Level") -> W("3")
          [] c = W("Leaf") -> W("TRUE")
          [] c = W("Brand") -> W("TRUE")
          [] c = W("Colour") -> W("Red")
          [] OTHER -> <<>>]

\* a row of the table: the cells of `cells` in the order of `layout`, cut to
\* `length` cells (csv.reader gives a short line a short row)
MkRow(layout, cells, length) ==
    [i \in 1..Min(length, Len(layout)) |-> cells[layout[i]]]

\* a length that cuts nothing
Whole == Len(FullLayout)

\* a path that holds the text of the entry marker
MarkerPath == << "x", SP, MARKER, "y" >>

\* rows of the pipeline runs: accepted rows, rows with an unparseable ID or
\* level, short rows
RowPool ==
    { [cells |-> BaseCells, length |-> Whole],
      [cells |-> (W("ID") :> << SP, "7", SP >>) @@ (W("Leaf") :> W("true"))
                 @@ (W("Path") :> MarkerPath) @@ (W("Good") :> W("TRUE")) @@ BaseCells,
       length |-> Whole],
      [cells |-> (W("ID") :> W("abc")) @@ BaseCells, length |-> Whole],
      [cells |-> (W("ID") :> W("200")) @@ (W("Level") :> W("x")) @@ BaseCells,
       length |-> Whole],
      [cells |-> (W("ID") :> W("-5")) @@ (W("Level") :> W("0")) @@ (W("Leaf") :> <<>>)
                 @@ BaseCells,
       length |-> Whole],
      [cells |-> (W("Leaf") :> W("TRUE")) @@ (W("ID") :> W("200")) @@ BaseCells, length |-> 1],
      [cells |-> (W("Leaf") :> W("TRUE")) @@ (W("ID") :> W("200")) @@ BaseCells, length |-> 2] }

\* the lists of at most n elements of S
RECURSIVE SeqsUpTo(_, _)
SeqsUpTo(S, n) ==
    IF n = 0 THEN { <<>> }
    ELSE LET shorter == SeqsUpTo(S, n - 1)
         IN  shorter \cup { Append(s, x) : s \in { t \in shorter : Len(t) = n - 1 }, x \in S }

\* who runs the pipeline, and on what configuration file
Runs ==
    { [mode |-> "main", yaml |-> y] : y \in YamlFiles } \cup { [mode |-> "upload", yaml |-> "none"] }

PreambleRow == << W("Category export") >>

Table(layout, preamble, rows) ==
    (IF preamble THEN << PreambleRow >> ELSE <<>>)
    \o << layout >>
    \o [i \in 1..Len(rows) |-> MkRow(layout, rows[i].cells, rows[i].length)]

\* a document of an earlier run
OldDocument ==
    generate_kotlin_models(create_temp_config,
        << process_row(create_temp_config, stored_indices(create_temp_config, FullLayout),
                       MkRow(FullLayout, BaseCells, Whole)) >>)

Start(run, table, old) ==
    /\ mode = run.mode
    /\ yaml = run.yaml
    /\ csv_data = table
    /\ pc = "start"
    /\ config = NoConfig
    /\ column_indices = <<>>
    /\ header_row_index = 0
    /\ row_index = 0
    /\ categories = <<>>
    /\ error = NoError
    /\ files = [p \in Paths |-> old]
    /\ preview = NoPreview
    /\ requests = [r \in Requests |-> NoRequest]
    /\ upload_folder = [n \in SavedNames |-> NoFile]

\* runs of the whole pipeline over tables of up to MaxRows data rows
Init ==
    \E run \in Runs, layout \in {FullLayout, LeafFirstLayout, LackingLayout},
       preamble \in BOOLEAN, rows \in SeqsUpTo(RowPool, MaxRows),
       old \in {NoFile, FileOf(OldDocument)} :
        Start(run, Table(layout, preamble, rows), old)

Spec == Init /\ [][Next]_vars

\* single rows that vary the attribute cells, the package size cells or the
\* condition cells
AttributeColumns ==
    { W("Brand"), W("Colour"), W("Material"), W("Size group"), W("Author"),
      W("Title"), W("ISBN") }

AttributeCells ==
    { W("TRUE"), <<>>, W("Red"), W("true"), << SP, "TRUE", SP >>, << SP, SP >>,
      << SP, "Red" >> }

IndicatorColumns ==
    << W("All shippable"), W("Heavy shipping"), W("Light bulky"), W("Heavy bulky") >>

IndicatorCells == { W("TRUE"), << SP, "true" >>, W("FALSE") }

PackageSizeCells ==
    { <<>>, W("-"), W("Heavy"), W("Oversize"), << SP, "Light bulky", SP >> }

ConditionColumns ==
    << W("New with tags"), W("New without tags"), W("Very good"), W("Good") >>

AttributeRows ==
    { [cells |-> (f :> v) @@ [c \in AttributeColumns |-> u] @@ BaseCells, length |-> n] :
        f \in AttributeColumns, v \in AttributeCells,
        u \in { W("TRUE"), <<>>, W("Red") }, n \in { Whole, 9 } }

PackageRows ==
    { [cells |-> ind @@ (W("Package size") :> free) @@ BaseCells, length |-> n] :
        ind \in [{IndicatorColumns[i] : i \in 1..4} -> IndicatorCells],
        free \in PackageSizeCells, n \in { Whole, 16 } }

ConditionRows ==
    { [cells |-> cond @@ BaseCells, length |-> Whole] :
        cond \in [{ConditionColumns[i] : i \in 1..4} -> { W("TRUE"), <<>> }] }

\* runs over a table of one data row that varies the cells of one concern
InitRow ==
    \E run \in Runs \ { [mode |-> "main", yaml |-> "unloadable"] },
       row \in AttributeRows \cup PackageRows \cup ConditionRows,
       old \in {NoFile, FileOf(OldDocument)} :
        Start(run, Table(FullLayout, FALSE, << row >>), old)

SpecRow == InitRow /\ [][Next]_vars

\* tables whose rows are header rows, data rows and preamble rows in any order:
\* a header row may come late, twice or not at all
HeaderPool ==
    { FullLayout, LeafFirstLayout, PreambleRow,
      MkRow(FullLayout, BaseCells, Whole), MkRow(LeafFirstLayout, BaseCells, Whole) }

MaxTable == 3

InitHeader ==
    \E run \in { [mode |-> "main", yaml |-> "full"], [mode |-> "upload", yaml |-> "none"] },
       table \in SeqsUpTo(HeaderPool, MaxTable) \ { <<>> },
       old \in {NoFile, FileOf(OldDocument)} :
        Start(run, table, old)

SpecHeader == InitHeader /\ [][Next]_vars

(* ------------------------------------------------------------------ *)
(* Concurrent uploads (app.py upload_file)                            *)
(* ------------------------------------------------------------------ *)
\* werkzeug's secure_filename on the names uploaded here: directory parts and
\* separators are dropped
secure_filename(filename) ==
    CASE filename = "a.csv" -> "a.csv"
      [] filename = "../a.csv" -> "a.csv"
      [] filename = "b.csv" -> "b.csv"
      [] filename = "notes.txt" -> "notes.txt"

\* file.filename.lower().endswith('.csv')
ends_with_csv(filename) == filename \in {"a.csv", "../a.csv", "b.csv"}

UploadNames == {"a.csv", "../a.csv", "b.csv", "notes.txt"}

\* the tables uploaded: one that gives a record, one whose only row is rejected
UploadBodies ==
    { Table(FullLayout, FALSE, << [cells |-> BaseCells, length |-> Whole] >>),
      Table(FullLayout, FALSE,
            << [cells |-> (W("ID") :> W("abc")) @@ BaseCells, length |-> Whole] >>) }

\* process_csv as one call: the records of a table, or the exception raised
\* before the loop
process_csv(cfg, csv) ==
    IF Len(csv) < 2 THEN [kind |-> "raises", categories |-> <<>>]
    ELSE LET h == find_header_row(csv)
             headers == Cell(csv, h)
         IN  IF missing_columns(cfg, headers) # <<>>
             THEN [kind |-> "raises", categories |-> <<>>]
             ELSE LET ci == stored_indices(cfg, headers)
                      results == [i \in 1..(Len(csv) - h - 1) |->
                                     process_row(cfg, ci, Cell(csv, h + i))]
                  IN  [kind |-> "returns",
                       categories |->
                           SelectIdx(results,
                                     [i \in 1..Len(results) |-> results[i].kind = "record"],
                                     1)]

\* lines 162-170: a request without a .csv file name is answered 400
RejectUpload(r) ==
    /\ requests[r].pc = "received"
    /\ ~ends_with_csv(requests[r].filename)
    /\ requests' = [requests EXCEPT ![r].pc = "rejected"]
    /\ UNCHANGED << mode, yaml, csv_data, pc, config, column_indices, header_row_index,
                    row_index, categories, error, files, preview, upload_folder >>

\* lines 173-175: the upload is saved under its secured name in UPLOAD_FOLDER
SaveUpload(r) ==
    /\ requests[r].pc = "received"
    /\ ends_with_csv(requests[r].filename)
    /\ upload_folder' = [upload_folder EXCEPT ![secure_filename(requests[r].filename)] =
                            FileOf(requests[r].body)]
    /\ requests' = [requests EXCEPT ![r].pc = "saved"]
    /\ UNCHANGED << mode, yaml, csv_data, pc, config, column_indices, header_row_index,
                    row_index, categories, error, files, preview >>

\* lines 177-195: process_csv reads the file at temp_csv_path (FileNotFoundError
\* when it is gone), and the document of a non-empty result is written
ProcessUpload(r) ==
    /\ requests[r].pc = "saved"
    /\ LET temp_csv_path == secure_filename(requests[r].filename)
       IN  IF ~upload_folder[temp_csv_path].exists
           THEN /\ requests' = [requests EXCEPT ![r].pc = "processed",
                                                ![r].read = << "FileNotFoundError" >>]
                /\ UNCHANGED files
           ELSE LET csv == upload_folder[temp_csv_path].content
                    result == process_csv(create_temp_config, csv)
                IN  /\ requests' = [requests EXCEPT ![r].pc = "processed", ![r].read = csv]
                    /\ files' = IF result.categories = <<>> THEN files
                                ELSE [files EXCEPT ![GENERATED_MODELS] =
                                        FileOf(generate_kotlin_models(create_temp_config,
                                                                      result.categories))]
    /\ UNCHANGED << mode, yaml, csv_data, pc, config, column_indices, header_row_index,
                    row_index, categories, error, preview, upload_folder >>

\* lines 205-208: finally, the temporary CSV file is removed if it exists
CleanUpUpload(r) ==
    /\ requests[r].pc = "processed"
    /\ upload_folder' = [upload_folder EXCEPT ![secure_filename(requests[r].filename)] = NoFile]
    /\ requests' = [requests EXCEPT ![r].pc = "done"]
    /\ UNCHANGED << mode, yaml, csv_data, pc, config, column_indices, header_row_index,
                    row_index, categories, error, files, preview >>

NextUploads ==
    \E r \in Requests :
        \/ RejectUpload(r)
        \/ SaveUpload(r)
        \/ ProcessUpload(r)
        \/ CleanUpUpload(r)

\* two uploads have come in; the server handles them in any interleaving
InitUploads ==
    \E names \in [Requests -> UploadNames], bodies \in [Requests -> UploadBodies],
       old \in {NoFile, FileOf(OldDocument)} :
        /\ mode = "upload"
        /\ yaml = "none"
        /\ csv_data = <<>>
        /\ pc = "start"
        /\ config = NoConfig
        /\ column_indices = <<>>
        /\ header_row_index = 0
        /\ row_index = 0
        /\ categories = <<>>
        /\ error = NoError
        /\ files = [p \in Paths |-> old]
        /\ preview = NoPreview
        /\ requests = [r \in Requests |->
                          [pc |-> "received", filename |-> names[r], body |-> bodies[r],
                           read |-> <<>>]]
        /\ upload_folder = [n \in SavedNames |-> NoFile]

SpecUploads == InitUploads /\ [][NextUploads]_vars

(* ------------------------------------------------------------------ *)
(* Properties                                                         *)
(* ------------------------------------------------------------------ *)
\* the run went past validation: the header row and the offsets are known
Validated == pc \in {"rows", "written", "empty"}

\* extraction has returned
Extracted == pc \in {"written", "empty"}

HeaderRow == Cell(csv_data, header_row_index)

\* the rows strictly after the header row
DataRows == SubSeq(csv_data, header_row_index + 2, Len(csv_data))

\* the cell of a row under the header `name`; Absent when the header row lacks
\* the name or the row is too short
Absent == << "<absent>" >>
CellUnder(row, name) ==
    IF In(name, HeaderRow) /\ IndexOf(HeaderRow, name) < Len(row)
    THEN Cell(row, IndexOf(HeaderRow, name))
    ELSE Absent

\* the row a record was read from, in a run over one data row
TheRow == DataRows[1]
OneRecord == Extracted /\ Len(DataRows) = 1 /\ Len(categories) = 1

(* C1 *)
RowInBoundsAndNumeric(row) ==
    /\ CellUnder(row, config.columns["leaf"]) # Absent
    /\ CellUnder(row, config.columns["category_id"]) # Absent
    /\ CellUnder(row, config.columns["level"]) # Absent
    /\ IntParses(CellUnder(row, config.columns["category_id"]))
    /\ IntParses(CellUnder(row, config.columns["level"]))

KeptRows ==
    SelectIdx(DataRows, [i \in 1..Len(DataRows) |-> RowInBoundsAndNumeric(DataRows[i])], 1)

\* C1: when process_csv has returned, the records are the data rows in their
\* order, less exactly the rows whose leaf, ID or level column is out of bounds
\* or whose ID or level cell is no integer: one record for every other row.
C1_RowsKeptInOrder ==
    Extracted =>
        /\ Len(categories) = Len(KeptRows)
        /\ \A i \in 1..Len(KeptRows) :
            i <= Len(categories) =>
                /\ categories[i].category_id
                     = IntOf(CellUnder(KeptRows[i], config.columns["category_id"]))
                /\ categories[i].category_level
                     = IntOf(CellUnder(KeptRows[i], config.columns["level"]))

(* C2, C10 *)
\* the entries of the document the run wrote, one per record
RenderedEntries ==
    [i \in 1..Len(categories) |-> Strip(kotlin_entry(config, categories[i]))]

\* a fragment that holds the entries of `group` between the header and the footer
FragmentOf(group) ==
    Strip(Strip(kotlin_header) \o << NL, NL >> \o Join(<< NL, NL >>, group)
          \o << NL >> \o Strip(kotlin_footer))

\* the document of this run was split with a max_per_chunk of at least 1
SplitOfRun ==
    /\ pc = "written"
    /\ preview # NoPreview
    /\ preview.content = generate_kotlin_models(config, categories)
    /\ preview.max_per_chunk >= 1

RECURSIVE SumTo(_, _)
SumTo(f, n) == IF n = 0 THEN 0 ELSE f[n] + SumTo(f, n - 1)

\* C2: the fragments hold the entries of the document, each once and in order,
\* at most max_per_chunk per fragment: the entries cut into consecutive groups
\* of 1..max_per_chunk, one group per fragment.
C2_ChunksKeepEntries ==
    SplitOfRun =>
        \E sizes \in [1..Len(preview.chunks) -> 1..preview.max_per_chunk] :
            /\ SumTo(sizes, Len(preview.chunks)) = Len(RenderedEntries)
            /\ \A j \in 1..Len(preview.chunks) :
                preview.chunks[j]
                  = FragmentOf(Slice(RenderedEntries, SumTo(sizes, j - 1), SumTo(sizes, j)))

\* C10: a document of n >= 1 entries split with max_per_chunk = k gives ceil(n/k)
\* fragments, the j-th holding entries (j-1)k+1 .. min(jk, n) between the same
\* header and the same footer.
C10_ChunkCounts ==
    (SplitOfRun /\ Len(RenderedEntries) >= 1) =>
        LET n == Len(RenderedEntries)
            k == preview.max_per_chunk
        IN  /\ Len(preview.chunks) = (n + k - 1) \div k
            /\ \A j \in 1..Len(preview.chunks) :
                preview.chunks[j] = FragmentOf(Slice(RenderedEntries, (j - 1) * k, j * k))

(* C3 *)
NoMappedCondition(category) ==
    \A j \in 1..Len(category.statuses_count) :
        ~(/\ category.statuses_count[j].count > 0
          /\ category.statuses_count[j].status \in DOMAIN config.condition_mapping)

Ascending(ids) == \A i \in 1..(Len(ids) - 1) : ~StrLess(ids[i + 1], ids[i])

DefaultFive ==
    { "VintedConditionTypes.NEW_WITH_TAGS.id", "VintedConditionTypes.NEW_WITHOUT_TAGS.id",
      "VintedConditionTypes.VERY_GOOD.id", "VintedConditionTypes.GOOD.id",
      "VintedConditionTypes.SATISFACTORY.id" }

\* C3: the condition identifiers rendered for a record are in ascending
\* lexicographic order and never empty, and are the five default identifiers
\* when no label with a nonzero count is mapped.
C3_ConditionIdsSortedNonEmpty ==
    \A i \in 1..Len(categories) :
        LET ids == generate_condition_ids(config, categories[i].statuses_count)
        IN  /\ ids # <<>>
            /\ Ascending(ids)
            /\ NoMappedCondition(categories[i]) =>
                  /\ Len(ids) = 5
                  /\ {ids[j] : j \in 1..Len(ids)} = DefaultFive

\* a record whose only condition cell that is TRUE has an unmapped label
C3_Witness ==
    /\ pc = "written"
    /\ \E i \in 1..Len(categories) :
        /\ NoMappedCondition(categories[i])
        /\ \E j \in 1..Len(categories[i].statuses_count) :
              categories[i].statuses_count[j].count > 0

(* C4 *)
IndicatorBuckets ==
    << W("All shippable"), W("Heavy"), W("Light bulky"), W("Heavy bulky") >>

SaysTrue(cell) == cell # Absent /\ Upper(cell) = TRUE_TEXT
SaysTrueTrimmed(cell) == cell # Absent /\ Upper(Strip(cell)) = TRUE_TEXT

FreeTextCell(row) ==
    IF "package_size" \in DOMAIN config.columns
    THEN CellUnder(row, config.columns["package_size"])
    ELSE Absent

NoFreeText(row) ==
    FreeTextCell(row) = Absent \/ Strip(FreeTextCell(row)) \in { <<>>, W("-") }

Least(S) == CHOOSE i \in S : \A j \in S : i <= j

\* C4 as stated: the first indicator column whose cell is TRUE in any case
\* decides the bucket; with none TRUE and no free text the bucket is
\* "All shippable".
C4_FirstTrueIndicatorWins ==
    OneRecord =>
        LET hits == {i \in 1..4 : SaysTrue(CellUnder(TheRow, IndicatorColumns[i]))}
            bucket == categories[1].package_size
        IN  /\ hits # {} => bucket = IndicatorBuckets[Least(hits)]
            /\ (hits = {} /\ NoFreeText(TheRow)) => bucket = W("All shippable")

\* C4 amended: the first indicator column whose cell, less surrounding
\* whitespace, is TRUE in any case decides the bucket; only with none such is
\* the free-text column read, a blank or "-" ignored, else its trimmed text is
\* the bucket; with no signal the bucket is "All shippable".
C4_FirstTrimmedTrueIndicatorWins ==
    OneRecord =>
        LET hits == {i \in 1..4 : SaysTrueTrimmed(CellUnder(TheRow, IndicatorColumns[i]))}
            bucket == categories[1].package_size
        IN  /\ hits # {} => bucket = IndicatorBuckets[Least(hits)]
            /\ (hits = {} /\ NoFreeText(TheRow)) => bucket = W("All shippable")
            /\ (hits = {} /\ ~NoFreeText(TheRow)) => bucket = Strip(FreeTextCell(TheRow))

\* Heavy shipping and Light bulky are both TRUE, All shippable is not
C4_Witness ==
    /\ OneRecord
    /\ ~SaysTrueTrimmed(CellUnder(TheRow, W("All shippable")))
    /\ SaysTrueTrimmed(CellUnder(TheRow, W("Heavy shipping")))
    /\ SaysTrueTrimmed(CellUnder(TheRow, W("Light bulky")))
    /\ categories[1].package_size = W("Heavy")

(* C5 *)
\* C5: a record's shipping sizes are the mapping's list for its bucket when the
\* bucket is a key of the mapping, and the "All shippable" list otherwise.
C5_ShippingSizesLookup ==
    \A i \in 1..Len(categories) :
        LET bucket == categories[i].package_size
        IN  /\ bucket \in DOMAIN config.package_size_mapping =>
                categories[i].shipping_sizes = config.package_size_mapping[bucket]
            /\ bucket \notin DOMAIN config.package_size_mapping =>
                categories[i].shipping_sizes = config.package_size_mapping[W("All shippable")]

\* a record whose bucket is no key of the mapping
C5_Witness ==
    /\ pc = "written"
    /\ \E i \in 1..Len(categories) :
        categories[i].package_size \notin DOMAIN config.package_size_mapping

(* C6 *)
\* C6 as stated: per attribute field, the cell "TRUE" gives true, an empty cell
\* or a missing or out-of-bounds column gives unset, any other text gives that
\* text.
C6_TriState ==
    OneRecord =>
        \A f \in AttributeSet :
            LET cell == CellUnder(TheRow, config.columns[f])
                value == categories[1].attributes[f]
            IN  /\ cell = TRUE_TEXT => value = AttrTrue
                /\ cell \in { <<>>, Absent } => value = AttrNone
                /\ cell \notin { TRUE_TEXT, <<>>, Absent } => value = AttrText(cell)

\* C6 amended: the same of the cell less its surrounding whitespace.
C6_TriStateTrimmed ==
    OneRecord =>
        \A f \in AttributeSet :
            LET cell == CellUnder(TheRow, config.columns[f])
                value == categories[1].attributes[f]
            IN  /\ (cell # Absent /\ Strip(cell) = TRUE_TEXT) => value = AttrTrue
                /\ (cell = Absent \/ Strip(cell) = <<>>) => value = AttrNone
                /\ (cell # Absent /\ Strip(cell) \notin { TRUE_TEXT, <<>> }) =>
                      value = AttrText(Strip(cell))

\* one record with a true field, a field of literal text and a field out of bounds
C6_Witness ==
    /\ OneRecord
    /\ \E f, g, h \in AttributeSet :
        /\ CellUnder(TheRow, config.columns[f]) = TRUE_TEXT
        /\ categories[1].attributes[f] = AttrTrue
        /\ categories[1].attributes[g].kind = "text"
        /\ CellUnder(TheRow, config.columns[h]) = Absent
        /\ categories[1].attributes[h] = AttrNone

(* C8 *)
RequiredNames ==
    { config.columns[k] :
        k \in {"leaf", "category_id", "path", "brand", "colour", "level"}
              \cup ({"material", "size_group", "author", "title", "isbn", "package_size"}
                    \cap DOMAIN config.columns) }

DiscoveredHeader == Cell(csv_data, find_header_row(csv_data))

MissingNames == {n \in RequiredNames : ~In(n, DiscoveredHeader)}

\* the run has gone through the validation of a table of two rows or more
PastValidation ==
    /\ pc \notin {"start", "loaded"}
    /\ error.kind # "configuration"
    /\ Len(csv_data) >= 2

\* C8: when a required header is absent from the discovered header row the run
\* has failed with an error that names every missing header, no record was
\* made and no column offset was stored.
C8_MissingColumnsAbort ==
    (PastValidation /\ MissingNames # {}) =>
        /\ pc = "failed"
        /\ error.kind = "missing_columns"
        /\ {error.columns[i] : i \in 1..Len(error.columns)} = MissingNames
        /\ categories = <<>>
        /\ column_indices = <<>>
        /\ row_index = 0

\* a table with data rows whose header lacks two required names
C8_Witness ==
    /\ pc = "failed"
    /\ error.kind = "missing_columns"
    /\ Len(error.columns) >= 2
    /\ Len(csv_data) >= 3

(* C9 *)
\* C9: the output documents change only in the step that ends an extraction
\* over all rows with at least one record; a run that fails or extracts
\* nothing leaves every document as it was.
C9_WriteOnlyAfterExtraction ==
    [][ (files' # files) =>
            /\ pc = "rows"
            /\ row_index = Len(csv_data)
            /\ categories # <<>>
            /\ categories' = categories
            /\ pc' = "written" ]_vars

\* every data row was read, none gave a record, and the earlier document stands
C9_Witness ==
    /\ pc = "empty"
    /\ Len(DataRows) >= 1
    /\ files[GENERATED_MODELS] = FileOf(OldDocument)

(* C11 *)
\* range(0, n, step) raises ValueError exactly for a zero step, and it is
\* reached only when the document holds an entry marker
SplitRaisesInside(content, max_per_chunk) ==
    marker_positions(content) # <<>> /\ max_per_chunk = 0

\* C11: a split whose body raises returns the original document, whole, as a
\* one-element sequence.
C11_FailedSplitReturnsDocument ==
    (preview # NoPreview /\ SplitRaisesInside(preview.content, preview.max_per_chunk)) =>
        preview.chunks = << preview.content >>

\* a split of a written document with a zero maxPerChunk was asked for
C11_Witness ==
    /\ preview # NoPreview
    /\ preview.max_per_chunk = 0
    /\ marker_positions(preview.content) # <<>>
    /\ preview.content = files[GENERATED_MODELS].content

(* C12 *)
\* C12: the temporary input file of a request that is being processed holds
\* what that request uploaded, and what the request has read is its own upload.
C12_OwnInputKept ==
    \A r \in Requests :
        /\ requests[r].pc = "saved" =>
              upload_folder[secure_filename(requests[r].filename)] = FileOf(requests[r].body)
        /\ requests[r].pc \in {"processed", "done"} => requests[r].read = requests[r].body

(* C13 *)
\* the header names the columns mapping refers to
ReferencedNames == { config.columns[k] : k \in DOMAIN config.columns }

\* C13: when a header name the columns mapping refers to, an extended field's
\* included, is absent from the discovered header row, the run has failed at
\* validation and no row was read.
C13_EveryReferencedColumnChecked ==
    (PastValidation /\ \E n \in ReferencedNames : ~In(n, DiscoveredHeader)) =>
        /\ pc = "failed"
        /\ error.kind = "missing_columns"
        /\ categories = <<>>
        /\ row_index = 0

(* C14 *)
Flagged(category, f) ==
    \E j \in 1..Len(category.field_types) : category.field_types[j].field_name = f

\* C14: an attribute of a record has an entry in the record's field type flags
\* exactly when the record's value for the attribute is boolean true.
C14_FlaggedIffTrue ==
    \A i \in 1..Len(categories) :
        \A f \in AttributeSet :
            Flagged(categories[i], f) <=> (categories[i].attributes[f] = AttrTrue)

(* C15 *)
\* the attributes the flags of a record mark as visible in the upload form
UploadFormFlagged(category) ==
    {j \in 1..Len(category.field_types) : category.field_types[j].is_upload_form}

CONDITION_VISIBLE == "VintedUploadItemFieldTypes.CONDITION_VISIBLE"

\* C15: the rendered expectedFieldsVisibility list of a record holds one
\* identifier for every attribute flagged as upload-form-visible and then the
\* condition visibility identifier, which is last.
C15_OneVisibilityPerFlag ==
    \A i \in 1..Len(categories) :
        LET visible == generate_field_types(categories[i].field_types)
            flagged == Cardinality(UploadFormFlagged(categories[i]))
        IN  /\ Len(visible) = flagged + 1
            /\ visible[Len(visible)] = CONDITION_VISIBLE
            /\ \A j \in 1..(Len(visible) - 1) : visible[j] # CONDITION_VISIBLE

(* C16 *)
\* the filter identifier the attributes brand, colour and material are mapped to
AttributeFilter(f) ==
    CASE f = "brand" -> "VintedFilterType.BRAND"
      [] f = "colour" -> "VintedFilterType.COLOR"
      [] f = "material" -> "VintedFilterType.MATERIAL"

\* the flags of a record that contribute a filter, in flag order
ContributingFlags(category) ==
    SelectIdx(category.field_types,
              [j \in 1..Len(category.field_types) |->
                  /\ category.field_types[j].is_filter
                  /\ category.field_types[j].field_name \in {"brand", "colour", "material"}],
              1)

\* C16: the rendered expectedFiltersVisibility list of a record is the filter
\* identifiers of its filter-visible brand, colour and material flags in flag
\* order, then the status filter, then the price filter; size_group gives no
\* SIZE filter and author, title and isbn give none at all.
C16_FiltersOfFlags ==
    \A i \in 1..Len(categories) :
        LET filters == generate_filter_types(categories[i].field_types)
            flags == ContributingFlags(categories[i])
        IN  /\ Len(filters) = Len(flags) + 2
            /\ \A j \in 1..Len(flags) : filters[j] = AttributeFilter(flags[j].field_name)
            /\ filters[Len(flags) + 1] = "VintedFilterType.STATUS"
            /\ filters[Len(flags) + 2] = "VintedFilterType.PRICE"
            /\ \A j \in 1..Len(filters) : filters[j] # "VintedFilterType.SIZE"

\* a written record flagged for brand, size_group and author
C16_Witness ==
    /\ pc = "written"
    /\ \E i \in 1..Len(categories) :
        /\ Flagged(categories[i], "brand")
        /\ Flagged(categories[i], "size_group")
        /\ Flagged(categories[i], "author")

(* C17 *)
\* C17: every record returned has a category id that is a positive integer and
\* a category level that is an integer of at least 1.
C17_PositiveIdAndLevel ==
    \A i \in 1..Len(categories) :
        /\ categories[i].category_id > 0
        /\ categories[i].category_level >= 1

(* C18 *)
BucketNames == { W("All shippable"), W("Heavy"), W("Light bulky"), W("Heavy bulky") }

\* C18: the package size bucket of every record is one of the four fixed names.
C18_BucketIsOneOfFour ==
    \A i \in 1..Len(categories) : categories[i].package_size \in BucketNames

(* C19 *)
MarkerNames == { W("ID"), W("Code"), W("Name"), W("Path"), W("Level"), W("Leaf") }

\* the 0-based indices of the rows that hold all six marker names
MarkerRows ==
    {i \in 0..(Len(csv_data) - 1) :
        \A m \in MarkerNames : \E j \in 1..Len(csv_data[i + 1]) : csv_data[i + 1][j] = m}

ExpectedHeaderIndex == IF MarkerRows = {} THEN 0 ELSE Least(MarkerRows)

\* C19: the header row is the first row that holds all six marker names, row 0
\* when there is none; the columns are validated against that row, the loop
\* reads only rows after it, and the records are those of the rows after it.
C19_HeaderIsFirstMarkerRow ==
    /\ Validated =>
          /\ header_row_index = ExpectedHeaderIndex
          /\ row_index > ExpectedHeaderIndex
    /\ (pc = "failed" /\ error.kind = "missing_columns") =>
          \E n \in RequiredNames : ~In(n, csv_data[ExpectedHeaderIndex + 1])
    /\ Extracted => Len(categories) = Len(KeptRows)

\* a written run over a data row, then the header row, then the same data row:
\* one record
C19_Witness ==
    /\ pc = "written"
    /\ Len(csv_data) = 3
    /\ ExpectedHeaderIndex = 1
    /\ csv_data[1] = csv_data[3]
    /\ Len(categories) = 1

====
